---- MODULE Spec2Model ----
(***************************************************************************)
(* The family-tree page: the FamilyTree component (its state hooks and     *)
(* handlers), the recursive RecursiveTreeNode renderer it calls and the    *)
(* filter controls of SearchFilterPanel.                                   *)
(*                                                                         *)
(* A Person is a record whose optional fields (gender, tags, spouse,       *)
(* children) are simply absent from its domain, as in the JSON data.       *)
(* A string that is searched (a name, a tag, the search text) is a         *)
(* sequence of one-letter strings, so that toLowerCase and includes are    *)
(* computed; an id is an atomic string.                                    *)
(***************************************************************************)
EXTENDS Integers, Sequences, FiniteSets, TLC

VARIABLES
    data,             \* FamilyTree props.data.rootCouple (husband, wife, children?)
    expandedNodes,    \* useState<Set<string>>(new Set(['root']))
    selectedPerson,   \* useState<{person, generation} | null>(null)
    isModalOpen,      \* useState(false)
    highlightedIds,   \* useState<string[]>([])
    searchQuery,      \* useState('')
    genderFilter,     \* useState<'all' | 'male' | 'female'>('all')
    generationFilter, \* useState<number | 'all'>('all')
    tagFilter,        \* useState<string[]>([])
    pendingTimers,    \* setTimeout callbacks scheduled by handleCloseModal, not yet run
    events,           \* EventsPage: eventsData.events as FamilyEvent[]
    statusFilter,     \* EventsPage: useState<FilterType>('all')
    typeFilter,       \* EventsPage: useState<EventType>('all')
    selectedEvent,    \* EventsPage: useState<FamilyEvent | null>(null)
    imageIds,         \* GoogleDriveGallery props.imageIds (default [])
    selectedImage,    \* GoogleDriveGallery: useState<string | null>(null)
    viewMode          \* GoogleDriveGallery: useState<'grid' | 'embed'>('embed')

\* the state of the family tree page, of the events page and of a gallery
treePage == <<data, expandedNodes, selectedPerson, isModalOpen, highlightedIds,
              searchQuery, genderFilter, generationFilter, tagFilter, pendingTimers>>

eventsPage == <<events, statusFilter, typeFilter, selectedEvent>>

gallery == <<imageIds, selectedImage, viewMode>>

vars == <<treePage, eventsPage, gallery>>

(***************************************************************************)
(* Bounds                                                                  *)
(***************************************************************************)
\* at most this many scheduled highlight-clear callbacks are pending at once
MaxTimers == 1

(***************************************************************************)
(* JavaScript values and string functions                                  *)
(***************************************************************************)
\* selectedPerson's initial value
null == [null |-> TRUE]

\* generationFilter is number | 'all'
GenAll == [kind |-> "all"]
GenLevel(n) == [kind |-> "level", n |-> n]

UpperToLower ==
    ("A" :> "a") @@ ("B" :> "b") @@ ("C" :> "c") @@ ("D" :> "d") @@
    ("E" :> "e") @@ ("F" :> "f") @@ ("G" :> "g") @@ ("H" :> "h") @@
    ("I" :> "i") @@ ("J" :> "j") @@ ("K" :> "k") @@ ("L" :> "l") @@
    ("M" :> "m") @@ ("N" :> "n") @@ ("O" :> "o") @@ ("P" :> "p") @@
    ("Q" :> "q") @@ ("R" :> "r") @@ ("S" :> "s") @@ ("T" :> "t") @@
    ("U" :> "u") @@ ("V" :> "v") @@ ("W" :> "w") @@ ("X" :> "x") @@
    ("Y" :> "y") @@ ("Z" :> "z")

\* String.prototype.toLowerCase
toLowerCase(s) ==
    [i \in 1..Len(s) |-> IF s[i] \in DOMAIN UpperToLower THEN UpperToLower[s[i]] ELSE s[i]]

\* String.prototype.includes: q occurs in s as a contiguous substring
includes(s, q) ==
    \E i \in 0..(Len(s) - Len(q)) : SubSeq(s, i + 1, i + Len(q)) = q

(***************************************************************************)
(* The data file: the family trees the page is given                       *)
(***************************************************************************)
Eve == [id |-> "eve", name |-> <<"E","v","e">>, gender |-> "female",
        tags |-> << <<"E","n","g">> >>]
Fay == [id |-> "fay", name |-> <<"F","a","y">>, tags |-> << <<"A","r","t">> >>,
        children |-> <<>>]
Sue == [name |-> <<"S","u","e">>, gender |-> "female",
        tags |-> << <<"A","r","t">>, <<"E","n","g">> >>]
Dan == [id |-> "dan", name |-> <<"D","a","n">>, gender |-> "male",
        spouse |-> Sue, children |-> <<Eve, Fay>>]
Cal == [id |-> "cal", name |-> <<"C","a","l">>, gender |-> "other",
        tags |-> << <<"A","r","t">> >>]

\* scenario 3 of the specification (Dan, his daughter Eve the engineer), with a
\* second grandchild and a sibling branch
TreeA == [husband  |-> [id |-> "h", name |-> <<"A","l">>, gender |-> "male",
                        tags |-> << <<"E","n","g">> >>],
          wife     |-> [id |-> "w", name |-> <<"B","e","a">>, gender |-> "female"],
          children |-> <<Dan, Cal>>]

Bev == [id |-> "bev", name |-> <<"B","e","v">>, gender |-> "female",
        tags |-> << <<"A","r","t">> >>]
Ian == [id |-> "ian", name |-> <<"I","a","n">>, gender |-> "male",
        children |-> <<Bev>>]
Eva == [id |-> "eva", name |-> <<"E","v","a">>, gender |-> "female",
        tags |-> << <<"A","r","t">> >>]
Hal == [id |-> "hal", name |-> <<"H","a","l">>, spouse |-> Eva, children |-> <<Ian>>]

\* a chain three generations deep, the only taggable match at its end
TreeB == [husband  |-> [id |-> "h", name |-> <<"G","u","s">>, gender |-> "male"],
          wife     |-> [id |-> "w", name |-> <<"I","d","a">>],
          children |-> <<Hal>>]

\* a couple without a children field
TreeC == [husband  |-> [id |-> "h", name |-> <<"A","l">>, gender |-> "male"],
          wife     |-> [id |-> "w", name |-> <<"E","v","e">>, gender |-> "female",
                        tags |-> << <<"A","r","t">> >>]]

Bert == [name |-> <<"B","e","r","t">>, gender |-> "male",
         tags |-> << <<"e","n","g">> >>]
Kim == [id |-> "kim", name |-> <<"K","i","m">>, gender |-> "female",
        tags |-> << <<"E","N","G">> >>, spouse |-> Bert]

\* tags that differ only in letter case, one of them carried by a spouse alone
TreeD == [husband  |-> [id |-> "h", name |-> <<"L","e","v">>, gender |-> "male"],
          wife     |-> [id |-> "w", name |-> <<"M","a","y">>, gender |-> "female"],
          children |-> <<Kim>>]

Trees == {TreeA, TreeB, TreeC, TreeD}

\* texts typed into the search box
Queries == {<<>>, <<"E","V">>, <<"r","t">>}

(***************************************************************************)
(* Traversals of the tree                                                  *)
(***************************************************************************)
\* person.children?.forEach / the children to iterate: none when the field is absent
childrenOf(p) == IF "children" \in DOMAIN p THEN p.children ELSE <<>>

\* every Person below p, p included, with its nesting level
RECURSIVE descendantsAt(_, _)
descendantsAt(p, level) ==
    {[person |-> p, level |-> level]} \cup
    UNION {descendantsAt(childrenOf(p)[i], level + 1) : i \in 1..Len(childrenOf(p))}

\* every Person below the root couple
Descendants ==
    UNION {descendantsAt(childrenOf(data)[i], 1) : i \in 1..Len(childrenOf(data))}

(***************************************************************************)
(* RecursiveTreeNode: the Node Matcher and the subtree test                *)
(***************************************************************************)
\* person.tags?.some(...) and person.tags?.map(...) are undefined, hence falsy,
\* when the tags field is absent
\* the search clause looking at the name only
matchesSearch_NameOnly(person) ==
    \/ searchQuery = <<>>
    \/ includes(toLowerCase(person.name), toLowerCase(searchQuery))

matchesSearch(person) ==
    \/ searchQuery = <<>>
    \/ includes(toLowerCase(person.name), toLowerCase(searchQuery))
    \/ /\ "tags" \in DOMAIN person
       /\ \E i \in 1..Len(person.tags) :
              includes(toLowerCase(person.tags[i]), toLowerCase(searchQuery))

matchesGender(person) ==
    \/ genderFilter = "all"
    \/ /\ "gender" \in DOMAIN person
       /\ person.gender = genderFilter

matchesGeneration(generationLevel) ==
    \/ generationFilter = GenAll
    \/ GenLevel(generationLevel) = generationFilter

\* the tag clause asking for every selected tag
matchesTags_EverySelected(person) ==
    \/ Len(tagFilter) = 0
    \/ \A k \in 1..Len(tagFilter) :
           /\ "tags" \in DOMAIN person
           /\ toLowerCase(tagFilter[k]) \in
                  {toLowerCase(person.tags[i]) : i \in 1..Len(person.tags)}

matchesTags(person) ==
    \/ Len(tagFilter) = 0
    \/ \E k \in 1..Len(tagFilter) :
           /\ "tags" \in DOMAIN person
           /\ toLowerCase(tagFilter[k]) \in
                  {toLowerCase(person.tags[i]) : i \in 1..Len(person.tags)}

\* isVisible with the tag clause forgotten
isVisible_NoTagClause(person, generationLevel) ==
    /\ matchesSearch(person)
    /\ matchesGender(person)
    /\ matchesGeneration(generationLevel)

isVisible(person, generationLevel) ==
    /\ matchesSearch(person)
    /\ matchesGender(person)
    /\ matchesGeneration(generationLevel)
    /\ matchesTags(person)

\* the test written out inside hasMatchingDescendant and again inside the
\* visibleChildren filter (lines 105-115): search, gender and tags of the child
childMatches(child) ==
    /\ \/ searchQuery = <<>>
       \/ includes(toLowerCase(child.name), toLowerCase(searchQuery))
       \/ /\ "tags" \in DOMAIN child
          /\ \E i \in 1..Len(child.tags) :
                 includes(toLowerCase(child.tags[i]), toLowerCase(searchQuery))
    /\ \/ genderFilter = "all"
       \/ /\ "gender" \in DOMAIN child
          /\ child.gender = genderFilter
    /\ \/ Len(tagFilter) = 0
       \/ \E k \in 1..Len(tagFilter) :
              /\ "tags" \in DOMAIN child
              /\ toLowerCase(tagFilter[k]) \in
                     {toLowerCase(child.tags[i]) : i \in 1..Len(child.tags)}

RECURSIVE hasMatchingDescendant(_)

\* hasMatchingDescendant looking at the direct children only
hasMatchingDescendant_DirectOnly(p) ==
    IF "children" \notin DOMAIN p THEN FALSE
    ELSE \E i \in 1..Len(p.children) : childMatches(p.children[i])

hasMatchingDescendant(p) ==
    IF "children" \notin DOMAIN p THEN FALSE
    ELSE \E i \in 1..Len(p.children) :
             childMatches(p.children[i]) \/ hasMatchingDescendant(p.children[i])

\* shouldShowNode reusing the three-clause child test for the node itself
shouldShowNode_ChildTest(person, generationLevel) ==
    childMatches(person) \/ hasMatchingDescendant(person)

shouldShowNode(person, generationLevel) ==
    isVisible(person, generationLevel) \/ hasMatchingDescendant(person)

hasChildren(person) == "children" \in DOMAIN person /\ Len(person.children) > 0

\* the children filter keeping a child for its descendants only
visibleChildren_DescendantsOnly(person) ==
    IF "children" \notin DOMAIN person THEN <<>>
    ELSE SelectSeq(person.children, LAMBDA child : hasMatchingDescendant(child))

\* person.children?.filter(...): the empty sequence stands for undefined as well,
\* every use being guarded by hasChildren or defaulted with "|| 0"
visibleChildren(person) ==
    IF "children" \notin DOMAIN person THEN <<>>
    ELSE SelectSeq(person.children,
                   LAMBDA child : childMatches(child) \/ hasMatchingDescendant(child))

\* the opacity decided by the three-clause child test
animateOpacity_ChildTest(person, generationLevel) ==
    IF childMatches(person) THEN 10 ELSE 6

\* animate={{ opacity: isVisible ? 1 : 0.6 }}, in tenths
animateOpacity(person, generationLevel) ==
    IF isVisible(person, generationLevel) THEN 10 ELSE 6

\* the number on the children-count badge: visibleChildren?.length || 0
badgeCount(person) == Len(visibleChildren(person))

\* the children container rendered whether the node is expanded or not
showsChildren_IgnoresExpanded(person) ==
    /\ hasChildren(person)
    /\ Len(visibleChildren(person)) > 0

\* the children container is rendered, with one slot per visible child
showsChildren(person) ==
    /\ hasChildren(person)
    /\ person.id \in expandedNodes
    /\ Len(visibleChildren(person)) > 0

\* what one RecursiveTreeNode call puts on screen: nothing when it returns null,
\* else its own card, the slots it maps its visibleChildren into, and whatever
\* the recursive calls in those slots render
RECURSIVE RecursiveTreeNode(_, _)

\* RecursiveTreeNode handing its own generationLevel down to its children
RecursiveTreeNode_SameLevel(person, generationLevel) ==
    IF ~shouldShowNode(person, generationLevel) THEN {}
    ELSE {[person |-> person,
           generationLevel |-> generationLevel,
           opacity |-> animateOpacity(person, generationLevel),
           slots |-> IF showsChildren(person) THEN visibleChildren(person) ELSE <<>>]}
         \cup
         (IF showsChildren(person)
          THEN UNION {RecursiveTreeNode(visibleChildren(person)[i], generationLevel) :
                          i \in 1..Len(visibleChildren(person))}
          ELSE {})

\* RecursiveTreeNode without "if (!shouldShowNode) return null"
RecursiveTreeNode_NoGate(person, generationLevel) ==
    {[person |-> person,
      generationLevel |-> generationLevel,
      opacity |-> animateOpacity(person, generationLevel),
      slots |-> IF showsChildren(person) THEN visibleChildren(person) ELSE <<>>]}
    \cup
    (IF showsChildren(person)
     THEN UNION {RecursiveTreeNode(visibleChildren(person)[i], generationLevel + 1) :
                     i \in 1..Len(visibleChildren(person))}
     ELSE {})

RecursiveTreeNode(person, generationLevel) ==
    IF ~shouldShowNode(person, generationLevel) THEN {}
    ELSE {[person |-> person,
           generationLevel |-> generationLevel,
           opacity |-> animateOpacity(person, generationLevel),
           slots |-> IF showsChildren(person) THEN visibleChildren(person) ELSE <<>>]}
         \cup
         (IF showsChildren(person)
          THEN UNION {RecursiveTreeNode(visibleChildren(person)[i], generationLevel + 1) :
                          i \in 1..Len(visibleChildren(person))}
          ELSE {})

(***************************************************************************)
(* FamilyTree: the root couple, the top-level children, the lineage        *)
(***************************************************************************)
rootMatchesSearch(person) ==
    \/ searchQuery = <<>>
    \/ includes(toLowerCase(person.name), toLowerCase(searchQuery))
    \/ /\ "tags" \in DOMAIN person
       /\ \E i \in 1..Len(person.tags) :
              includes(toLowerCase(person.tags[i]), toLowerCase(searchQuery))

\* the root gender test letting a person without a declared gender through
rootMatchesGender_UndeclaredPasses(person) ==
    \/ genderFilter = "all"
    \/ "gender" \notin DOMAIN person
    \/ person.gender = genderFilter

rootMatchesGender(person) ==
    \/ genderFilter = "all"
    \/ /\ "gender" \in DOMAIN person
       /\ person.gender = genderFilter

\* showHusband accepting the generation filter 'all' only
showHusband_GenerationAllOnly ==
    /\ generationFilter = GenAll
    /\ rootMatchesSearch(data.husband)
    /\ rootMatchesGender(data.husband)

showHusband ==
    /\ generationFilter = GenAll \/ generationFilter = GenLevel(0)
    /\ rootMatchesSearch(data.husband)
    /\ rootMatchesGender(data.husband)

showWife ==
    /\ generationFilter = GenAll \/ generationFilter = GenLevel(0)
    /\ rootMatchesSearch(data.wife)
    /\ rootMatchesGender(data.wife)

\* the childMatches expression of FamilyTree's useMemo (lines 167-177, 183-193)
rootChildMatches(child) ==
    /\ \/ searchQuery = <<>>
       \/ includes(toLowerCase(child.name), toLowerCase(searchQuery))
       \/ /\ "tags" \in DOMAIN child
          /\ \E i \in 1..Len(child.tags) :
                 includes(toLowerCase(child.tags[i]), toLowerCase(searchQuery))
    /\ \/ genderFilter = "all"
       \/ /\ "gender" \in DOMAIN child
          /\ child.gender = genderFilter
    /\ \/ Len(tagFilter) = 0
       \/ \E k \in 1..Len(tagFilter) :
              /\ "tags" \in DOMAIN child
              /\ toLowerCase(tagFilter[k]) \in
                     {toLowerCase(child.tags[i]) : i \in 1..Len(child.tags)}

RECURSIVE rootHasMatchingDescendant(_)
rootHasMatchingDescendant(person) ==
    IF "children" \notin DOMAIN person THEN FALSE
    ELSE \E i \in 1..Len(person.children) :
             \/ rootChildMatches(person.children[i])
             \/ rootHasMatchingDescendant(person.children[i])

\* data.rootCouple.children?.filter(...)
rootVisibleChildren ==
    IF "children" \notin DOMAIN data THEN <<>>
    ELSE SelectSeq(data.children,
                   LAMBDA child : rootChildMatches(child) \/ rootHasMatchingDescendant(child))

isRootExpanded == "root" \in expandedNodes

\* the Children Tree block: one RecursiveTreeNode at generation 1 per visible child
showsRootChildren == isRootExpanded /\ Len(rootVisibleChildren) > 0

\* every descendant card on screen
Rendered ==
    IF showsRootChildren
    THEN UNION {RecursiveTreeNode(rootVisibleChildren[i], 1) :
                    i \in 1..Len(rootVisibleChildren)}
    ELSE {}

\* the number on the root's children-count badge
rootBadgeCount == Len(rootVisibleChildren)

\* the condition under which the "No matches found" block is rendered
showEmptyState ==
    \/ generationFilter # GenAll /\ generationFilter # GenLevel(0)
    \/ /\ searchQuery # <<>>
       /\ ~showHusband
       /\ ~showWife
       /\ Len(rootVisibleChildren) = 0

\* the ids collected for Expand All
RECURSIVE collectIds(_)
collectIds(person) ==
    {person.id} \cup
    UNION {collectIds(childrenOf(person)[i]) : i \in 1..Len(childrenOf(person))}

\* the collection that starts from the root couple's own ids as well
allNodeIds_WithRootCouple ==
    {"root", data.husband.id, data.wife.id} \cup
    UNION {collectIds(childrenOf(data)[i]) : i \in 1..Len(childrenOf(data))}

allNodeIds ==
    {"root"} \cup
    UNION {collectIds(childrenOf(data)[i]) : i \in 1..Len(childrenOf(data))}

\* findPath(current, targetId, currentPath): push, test, try the children in
\* order, pop on failure; the result is the return value and the path left behind
RECURSIVE findPath(_, _, _), findPathIn(_, _, _, _)

\* findPath without currentPath.pop() on failure
findPath_NoPop(current, targetId, currentPath) ==
    LET pushed == Append(currentPath, current.id)
    IN  IF current.id = targetId
        THEN [found |-> TRUE, path |-> pushed]
        ELSE LET below == findPathIn(childrenOf(current), 1, targetId, pushed)
             IN  IF below.found THEN below
                 ELSE [found |-> FALSE, path |-> pushed]

findPath(current, targetId, currentPath) ==
    LET pushed == Append(currentPath, current.id)
    IN  IF current.id = targetId
        THEN [found |-> TRUE, path |-> pushed]
        ELSE LET below == findPathIn(childrenOf(current), 1, targetId, pushed)
             IN  IF below.found THEN below
                 ELSE [found |-> FALSE, path |-> SubSeq(pushed, 1, Len(pushed) - 1)]

\* for (const child of current.children) { if (findPath(...)) return true }
findPathIn(children, i, targetId, currentPath) ==
    IF i > Len(children) THEN [found |-> FALSE, path |-> currentPath]
    ELSE LET r == findPath(children[i], targetId, currentPath)
         IN  IF r.found THEN r
             ELSE findPathIn(children, i + 1, targetId, r.path)

\* data.rootCouple.children?.forEach(child => { tempPath = []; if (findPath(...))
\* path.push(...tempPath) }): every top-level child is visited
RECURSIVE forEachRootChild(_, _, _, _)
forEachRootChild(children, i, targetId, path) ==
    IF i > Len(children) THEN path
    ELSE LET r == findPath(children[i], targetId, <<>>)
         IN  forEachRootChild(children, i + 1, targetId,
                              IF r.found THEN path \o r.path ELSE path)

\* the path built with the two root-couple branches left out
lineagePath_NoRootCase(person) ==
    forEachRootChild(childrenOf(data), 1, person.id,
                     <<data.husband.id, data.wife.id>>)

\* the path built on top of the highlight already on display instead of on
\* a fresh array
lineagePath_OnOldHighlight(person) ==
    IF person.id = data.husband.id THEN Append(highlightedIds, data.husband.id)
    ELSE IF person.id = data.wife.id THEN Append(highlightedIds, data.wife.id)
    ELSE forEachRootChild(childrenOf(data), 1, person.id,
                          highlightedIds \o <<data.husband.id, data.wife.id>>)

\* the path handleSelectPerson builds before setHighlightedIds(path)
lineagePath(person) ==
    IF person.id = data.husband.id THEN <<data.husband.id>>
    ELSE IF person.id = data.wife.id THEN <<data.wife.id>>
    ELSE forEachRootChild(childrenOf(data), 1, person.id,
                          <<data.husband.id, data.wife.id>>)

\* the persons findPath is called on, in call order, for one top-level call:
\* the for loop over current.children returns at the first successful child
RECURSIVE findPathVisits(_, _), findPathVisitsIn(_, _, _)
findPathVisits(current, targetId) ==
    IF current.id = targetId THEN <<current.id>>
    ELSE <<current.id>> \o findPathVisitsIn(childrenOf(current), 1, targetId)

findPathVisitsIn(children, i, targetId) ==
    IF i > Len(children) THEN <<>>
    ELSE IF findPath(children[i], targetId, <<>>).found
         THEN findPathVisits(children[i], targetId)
         ELSE findPathVisits(children[i], targetId)
                  \o findPathVisitsIn(children, i + 1, targetId)

\* the forEach over the top-level children has no early exit: its callback,
\* hence findPath, runs for every child, whatever the earlier calls returned
RECURSIVE forEachRootChildVisits(_, _, _)
forEachRootChildVisits(children, i, targetId) ==
    IF i > Len(children) THEN <<>>
    ELSE findPathVisits(children[i], targetId)
             \o forEachRootChildVisits(children, i + 1, targetId)

\* every person handleSelectPerson compares with the target while it builds
\* the path for this person, in order
lineageVisits(person) ==
    IF person.id = data.husband.id \/ person.id = data.wife.id THEN <<>>
    ELSE forEachRootChildVisits(childrenOf(data), 1, person.id)

(***************************************************************************)
(* SearchFilterPanel: what the filter controls offer                       *)
(***************************************************************************)
RECURSIVE extractTags(_)

\* extractTags without the person.spouse?.tags line
extractTags_NoSpouse(person) ==
    (IF "tags" \in DOMAIN person
     THEN {person.tags[i] : i \in 1..Len(person.tags)} ELSE {})
    \cup
    UNION {extractTags(childrenOf(person)[i]) : i \in 1..Len(childrenOf(person))}

extractTags(person) ==
    (IF "tags" \in DOMAIN person
     THEN {person.tags[i] : i \in 1..Len(person.tags)} ELSE {})
    \cup
    (IF "spouse" \in DOMAIN person /\ "tags" \in DOMAIN person.spouse
     THEN {person.spouse.tags[i] : i \in 1..Len(person.spouse.tags)} ELSE {})
    \cup
    UNION {extractTags(childrenOf(person)[i]) : i \in 1..Len(childrenOf(person))}

\* the tag vocabulary (the sorted array, as a set)
allTags ==
    (IF "tags" \in DOMAIN data.husband
     THEN {data.husband.tags[i] : i \in 1..Len(data.husband.tags)} ELSE {})
    \cup
    (IF "tags" \in DOMAIN data.wife
     THEN {data.wife.tags[i] : i \in 1..Len(data.wife.tags)} ELSE {})
    \cup
    UNION {extractTags(childrenOf(data)[i]) : i \in 1..Len(childrenOf(data))}

\* the deepest nesting level; the generation buttons are All, 0, 1..maxGeneration
maxGeneration ==
    IF Descendants = {} THEN 0
    ELSE CHOOSE m \in {d.level : d \in Descendants} :
             \A d \in Descendants : d.level <= m

\* tagFilter.includes(tag) ? tagFilter.filter(t => t !== tag) : [...tagFilter, tag]
toggleTag(tag) ==
    IF \E k \in 1..Len(tagFilter) : tagFilter[k] = tag
    THEN SelectSeq(tagFilter, LAMBDA t : t # tag)
    ELSE Append(tagFilter, tag)

(***************************************************************************)
(* One page is mounted at a time: a component that is not mounted holds no *)
(* state                                                                   *)
(***************************************************************************)
treePageUnmounted ==
    /\ data = null
    /\ expandedNodes = null
    /\ selectedPerson = null
    /\ isModalOpen = null
    /\ highlightedIds = null
    /\ searchQuery = null
    /\ genderFilter = null
    /\ generationFilter = null
    /\ tagFilter = null
    /\ pendingTimers = null

eventsPageUnmounted ==
    /\ events = null
    /\ statusFilter = null
    /\ typeFilter = null
    /\ selectedEvent = null

galleryUnmounted ==
    /\ imageIds = null
    /\ selectedImage = null
    /\ viewMode = null

(***************************************************************************)
(* The state after mounting and the handlers                               *)
(***************************************************************************)
Init ==
    /\ data \in Trees
    /\ expandedNodes = {"root"}
    /\ selectedPerson = null
    /\ isModalOpen = FALSE
    /\ highlightedIds = <<>>
    /\ searchQuery = <<>>
    /\ genderFilter = "all"
    /\ generationFilter = GenAll
    /\ tagFilter = <<>>
    /\ pendingTimers = 0
    /\ eventsPageUnmounted
    /\ galleryUnmounted

\* the toggle whose collapse also forgets every other expanded node
handleToggleExpand_ForgetsOthers(id) ==
    /\ expandedNodes' = IF id \in expandedNodes
                        THEN (expandedNodes \cap {"root"}) \ {id}
                        ELSE expandedNodes \cup {id}
    /\ UNCHANGED <<eventsPage, gallery>>
    /\ UNCHANGED <<data, selectedPerson, isModalOpen, highlightedIds, searchQuery,
                   genderFilter, generationFilter, tagFilter, pendingTimers>>

\* setExpandedNodes(prev => prev with id toggled)
handleToggleExpand(id) ==
    /\ expandedNodes' = IF id \in expandedNodes
                        THEN expandedNodes \ {id}
                        ELSE expandedNodes \cup {id}
    /\ UNCHANGED <<eventsPage, gallery>>
    /\ UNCHANGED <<data, selectedPerson, isModalOpen, highlightedIds, searchQuery,
                   genderFilter, generationFilter, tagFilter, pendingTimers>>

\* the root's expand button, present when the root couple has children
ToggleRoot ==
    /\ "children" \in DOMAIN data
    /\ Len(data.children) > 0
    /\ handleToggleExpand("root")

\* the expand button or the children-count badge of a node on screen
ToggleNode ==
    \E r \in Rendered :
        /\ hasChildren(r.person)
        /\ handleToggleExpand(r.person.id)

handleExpandAll ==
    /\ expandedNodes' = allNodeIds
    /\ UNCHANGED <<eventsPage, gallery>>
    /\ UNCHANGED <<data, selectedPerson, isModalOpen, highlightedIds, searchQuery,
                   genderFilter, generationFilter, tagFilter, pendingTimers>>

handleCollapseAll ==
    /\ expandedNodes' = {"root"}
    /\ UNCHANGED <<eventsPage, gallery>>
    /\ UNCHANGED <<data, selectedPerson, isModalOpen, highlightedIds, searchQuery,
                   genderFilter, generationFilter, tagFilter, pendingTimers>>

handleSelectPerson(person, generation) ==
    /\ selectedPerson' = [person |-> person, generation |-> generation]
    /\ isModalOpen' = TRUE
    /\ highlightedIds' = lineagePath(person)
    /\ UNCHANGED <<eventsPage, gallery>>
    /\ UNCHANGED <<data, expandedNodes, searchQuery, genderFilter, generationFilter,
                   tagFilter, pendingTimers>>

\* { ...person.spouse!, id: person.spouse!.id || `${person.id}-spouse` }
spouseAsPerson(person) ==
    [f \in DOMAIN person.spouse \cup {"id"} |->
        IF f = "id"
        THEN IF "id" \in DOMAIN person.spouse /\ person.spouse.id # ""
             THEN person.spouse.id
             ELSE person.id \o "-spouse"
        ELSE person.spouse[f]]

SelectHusband == showHusband /\ handleSelectPerson(data.husband, 0)

SelectWife == showWife /\ handleSelectPerson(data.wife, 0)

\* a click on the card of a node on screen
SelectNode ==
    \E r \in Rendered : handleSelectPerson(r.person, r.generationLevel)

\* the tree with the spouse of the person carrying this id replaced by the
\* copy that has an id
RECURSIVE stampSpouse(_, _)
stampSpouse(p, id) ==
    [f \in DOMAIN p |->
        IF f = "spouse" /\ p.id = id THEN spouseAsPerson(p)
        ELSE IF f = "children"
             THEN [i \in 1..Len(p.children) |-> stampSpouse(p.children[i], id)]
             ELSE p[f]]

\* the spouse click assigning the id to person.spouse in place instead of
\* spreading the spouse into a new object
SelectSpouse_InPlace ==
    \E r \in Rendered :
        /\ "spouse" \in DOMAIN r.person
        /\ selectedPerson' = [person |-> spouseAsPerson(r.person),
                              generation |-> r.generationLevel]
        /\ isModalOpen' = TRUE
        /\ highlightedIds' = lineagePath(spouseAsPerson(r.person))
        /\ data' = [data EXCEPT !.children =
                        [i \in 1..Len(data.children) |->
                            stampSpouse(data.children[i], r.person.id)]]
        /\ UNCHANGED <<eventsPage, gallery>>
        /\ UNCHANGED <<expandedNodes, searchQuery, genderFilter, generationFilter,
                       tagFilter, pendingTimers>>

\* a click on the revealed spouse card of a node on screen
SelectSpouse ==
    \E r \in Rendered :
        /\ "spouse" \in DOMAIN r.person
        /\ handleSelectPerson(spouseAsPerson(r.person), r.generationLevel)

\* the close that schedules no callback
handleCloseModal_NoTimer ==
    /\ isModalOpen
    /\ isModalOpen' = FALSE
    /\ UNCHANGED <<eventsPage, gallery>>
    /\ UNCHANGED <<data, expandedNodes, selectedPerson, highlightedIds, searchQuery,
                   genderFilter, generationFilter, tagFilter, pendingTimers>>

\* the modal's close controls exist while it is open; the callback runs later
handleCloseModal ==
    /\ isModalOpen
    /\ pendingTimers < MaxTimers
    /\ isModalOpen' = FALSE
    /\ pendingTimers' = pendingTimers + 1
    /\ UNCHANGED <<eventsPage, gallery>>
    /\ UNCHANGED <<data, expandedNodes, selectedPerson, highlightedIds, searchQuery,
                   genderFilter, generationFilter, tagFilter>>

\* setTimeout(() => setHighlightedIds([]), 300) comes due
ClearHighlightTimer ==
    /\ pendingTimers > 0
    /\ highlightedIds' = <<>>
    /\ pendingTimers' = pendingTimers - 1
    /\ UNCHANGED <<eventsPage, gallery>>
    /\ UNCHANGED <<data, expandedNodes, selectedPerson, isModalOpen, searchQuery,
                   genderFilter, generationFilter, tagFilter>>

setSearchQuery ==
    /\ \E q \in Queries : searchQuery' = q
    /\ UNCHANGED <<eventsPage, gallery>>
    /\ UNCHANGED <<data, expandedNodes, selectedPerson, isModalOpen, highlightedIds,
                   genderFilter, generationFilter, tagFilter, pendingTimers>>

setGenderFilter ==
    /\ \E g \in {"all", "male", "female"} : genderFilter' = g
    /\ UNCHANGED <<eventsPage, gallery>>
    /\ UNCHANGED <<data, expandedNodes, selectedPerson, isModalOpen, highlightedIds,
                   searchQuery, generationFilter, tagFilter, pendingTimers>>

setGenerationFilter ==
    /\ \E g \in {GenAll} \cup {GenLevel(n) : n \in 0..maxGeneration} :
           generationFilter' = g
    /\ UNCHANGED <<eventsPage, gallery>>
    /\ UNCHANGED <<data, expandedNodes, selectedPerson, isModalOpen, highlightedIds,
                   searchQuery, genderFilter, tagFilter, pendingTimers>>

setTagFilter ==
    /\ \E tag \in allTags : tagFilter' = toggleTag(tag)
    /\ UNCHANGED <<eventsPage, gallery>>
    /\ UNCHANGED <<data, expandedNodes, selectedPerson, isModalOpen, highlightedIds,
                   searchQuery, genderFilter, generationFilter, pendingTimers>>

clearFilters ==
    /\ searchQuery' = <<>>
    /\ genderFilter' = "all"
    /\ generationFilter' = GenAll
    /\ tagFilter' = <<>>
    /\ UNCHANGED <<eventsPage, gallery>>
    /\ UNCHANGED <<data, expandedNodes, selectedPerson, isModalOpen, highlightedIds,
                   pendingTimers>>

Next ==
    \/ ToggleRoot
    \/ ToggleNode
    \/ handleExpandAll
    \/ handleCollapseAll
    \/ SelectHusband
    \/ SelectWife
    \/ SelectNode
    \/ SelectSpouse
    \/ handleCloseModal
    \/ ClearHighlightTimer
    \/ setSearchQuery
    \/ setGenderFilter
    \/ setGenerationFilter
    \/ setTagFilter
    \/ clearFilters

Spec == Init /\ [][Next]_vars

\* the page driven by its filter and expand/collapse controls alone: what is on
\* screen depends on nothing else
NextView ==
    \/ ToggleRoot
    \/ ToggleNode
    \/ handleExpandAll
    \/ handleCollapseAll
    \/ setSearchQuery
    \/ setGenderFilter
    \/ setGenerationFilter
    \/ setTagFilter
    \/ clearFilters

ViewSpec == Init /\ [][NextView]_vars

\* the page with its filters left alone: expanding, collapsing, selecting a
\* card and closing the modal; the lineage depends on nothing else
NextSelect ==
    \/ ToggleRoot
    \/ ToggleNode
    \/ handleExpandAll
    \/ handleCollapseAll
    \/ SelectHusband
    \/ SelectWife
    \/ SelectNode
    \/ SelectSpouse
    \/ handleCloseModal
    \/ ClearHighlightTimer

SelectSpec == Init /\ [][NextSelect]_vars

\* the page as it stands once some filters have been set: any search text,
\* gender, generation and at most one tag the panel offers
InitFiltered ==
    /\ data \in Trees
    /\ expandedNodes = {"root"}
    /\ selectedPerson = null
    /\ isModalOpen = FALSE
    /\ highlightedIds = <<>>
    /\ searchQuery \in Queries
    /\ genderFilter \in {"all", "male", "female"}
    /\ generationFilter \in {GenAll} \cup {GenLevel(n) : n \in 0..maxGeneration}
    /\ tagFilter \in {<<>>} \cup {<<tag>> : tag \in allTags}
    /\ pendingTimers = 0
    /\ eventsPageUnmounted
    /\ galleryUnmounted

\* from there on the filters are left alone: expanding, collapsing, selecting
\* and closing under a fixed filter setting
FilteredSelectSpec == InitFiltered /\ [][NextSelect]_vars

\* a callback handed to setTimeout is run by the event loop once it is due
FairSelectSpec == SelectSpec /\ WF_vars(ClearHighlightTimer)

(***************************************************************************)
(* GoogleDriveGallery: the grid of thumbnails and its lightbox             *)
(***************************************************************************)
\* the file ids a gallery may be given
ImageIds == {"p1", "p2", "p3", "p4"}

\* the imageIds props: every list of distinct file ids, the default [] included
Galleries ==
    {s \in UNION {[1..n -> ImageIds] : n \in 0..Cardinality(ImageIds)} :
        \A i, j \in 1..Len(s) : i # j => s[i] # s[j]}

\* what reading past the end of an array gives, and the null of
\* useState<string | null>: neither is a file id
undefined == "undefined"

noImage == "null"

\* Array.prototype.indexOf: the first index holding x, counted from 0, or -1
indexOf(arr, x) ==
    IF \E i \in 1..Len(arr) : arr[i] = x
    THEN (CHOOSE i \in 1..Len(arr) :
              arr[i] = x /\ \A j \in 1..(i - 1) : arr[j] # x) - 1
    ELSE -1

\* arr[index], counted from 0
at(arr, index) ==
    IF index \in 0..(Len(arr) - 1) THEN arr[index + 1] ELSE undefined

\* currentIndex === 0 ? imageIds.length - 1 : currentIndex - 1
prevIndex(currentIndex) ==
    IF currentIndex = 0 THEN Len(imageIds) - 1 ELSE currentIndex - 1

\* currentIndex === imageIds.length - 1 ? 0 : currentIndex + 1
nextIndex(currentIndex) ==
    IF currentIndex = Len(imageIds) - 1 THEN 0 ELSE currentIndex + 1

\* one gallery on screen, given its images, with the lightbox closed
GalleryInit ==
    /\ treePageUnmounted
    /\ eventsPageUnmounted
    /\ imageIds \in Galleries
    /\ selectedImage = noImage
    /\ viewMode = "embed"

\* the Grid View and Folder View buttons, present when there are images
setViewMode ==
    /\ Len(imageIds) > 0
    /\ \E mode \in {"grid", "embed"} : viewMode' = mode
    /\ UNCHANGED <<treePage, eventsPage, imageIds, selectedImage>>

\* a click, Enter or Space on a thumbnail of the grid
OpenImage ==
    /\ viewMode = "grid"
    /\ Len(imageIds) > 0
    /\ \E i \in 1..Len(imageIds) : selectedImage' = imageIds[i]
    /\ UNCHANGED <<treePage, eventsPage, imageIds, viewMode>>

\* the keydown listener of the document
handleKeyDown(key) ==
    /\ IF selectedImage = noImage \/ Len(imageIds) <= 1
       THEN selectedImage' = selectedImage
       ELSE LET currentIndex == indexOf(imageIds, selectedImage) IN
            IF key = "ArrowLeft"
            THEN selectedImage' = at(imageIds, prevIndex(currentIndex))
            ELSE IF key = "ArrowRight"
            THEN selectedImage' = at(imageIds, nextIndex(currentIndex))
            ELSE IF key = "Escape"
            THEN selectedImage' = noImage
            ELSE selectedImage' = selectedImage
    /\ UNCHANGED <<treePage, eventsPage, imageIds, viewMode>>

\* the listener is attached while an image is selected
KeyArrowLeft == selectedImage # noImage /\ handleKeyDown("ArrowLeft")

KeyArrowRight == selectedImage # noImage /\ handleKeyDown("ArrowRight")

KeyEscape == selectedImage # noImage /\ handleKeyDown("Escape")

\* onDragEnd of the image, given the drag's horizontal offset and velocity
handleSwipe(offsetX, velocityX) ==
    /\ IF selectedImage = noImage \/ Len(imageIds) <= 1
       THEN selectedImage' = selectedImage
       ELSE LET currentIndex == indexOf(imageIds, selectedImage) IN
            IF offsetX < -100 \/ velocityX < -500
            THEN selectedImage' = at(imageIds, nextIndex(currentIndex))
            ELSE IF offsetX > 100 \/ velocityX > 500
            THEN selectedImage' = at(imageIds, prevIndex(currentIndex))
            ELSE selectedImage' = selectedImage
    /\ UNCHANGED <<treePage, eventsPage, imageIds, viewMode>>

\* the drags told apart by the handler: far or fast to either side, or neither
SwipeOffsets == {-150, 0, 150}

SwipeVelocities == {-600, 0, 600}

\* the image can be dragged while the lightbox shows one of several images
Swipe ==
    /\ selectedImage # noImage
    /\ Len(imageIds) > 1
    /\ \E offsetX \in SwipeOffsets, velocityX \in SwipeVelocities :
           handleSwipe(offsetX, velocityX)

\* the arrow buttons of the lightbox, present when there are several images
ClickPrevious ==
    /\ selectedImage # noImage
    /\ Len(imageIds) > 1
    /\ selectedImage' = at(imageIds, prevIndex(indexOf(imageIds, selectedImage)))
    /\ UNCHANGED <<treePage, eventsPage, imageIds, viewMode>>

ClickNext ==
    /\ selectedImage # noImage
    /\ Len(imageIds) > 1
    /\ selectedImage' = at(imageIds, nextIndex(indexOf(imageIds, selectedImage)))
    /\ UNCHANGED <<treePage, eventsPage, imageIds, viewMode>>

\* the backdrop of the lightbox and its close button
ClickBackdrop ==
    /\ selectedImage # noImage
    /\ selectedImage' = noImage
    /\ UNCHANGED <<treePage, eventsPage, imageIds, viewMode>>

ClickClose ==
    /\ selectedImage # noImage
    /\ selectedImage' = noImage
    /\ UNCHANGED <<treePage, eventsPage, imageIds, viewMode>>

NextGallery ==
    \/ setViewMode
    \/ OpenImage
    \/ KeyArrowLeft
    \/ KeyArrowRight
    \/ KeyEscape
    \/ Swipe
    \/ ClickPrevious
    \/ ClickNext
    \/ ClickBackdrop
    \/ ClickClose

GallerySpec == GalleryInit /\ [][NextGallery]_vars

(***************************************************************************)
(* EventsPage: the list of events under its status and type filters.  A    *)
(* FamilyEvent is a record with the fields the page reads: id, type,       *)
(* status and date, the ISO date as <<year, month, day>>.                  *)
(***************************************************************************)
\* FamilyEvent['type']
EventTypes ==
    {"celebration", "reunion", "wedding", "birthday", "memorial", "holiday", "other"}

\* eventsData.events: lists in no particular order, with dates that repeat
\* and an upcoming event dated before a past one (status is a field of the
\* data, not computed from date), with one status only, with one event and
\* with none
EventsA ==
    << [id |-> "e1", type |-> "wedding",  status |-> "past",     date |-> <<2023, 5, 1>>],
       [id |-> "e2", type |-> "reunion",  status |-> "upcoming", date |-> <<2024, 1, 10>>],
       [id |-> "e3", type |-> "birthday", status |-> "past",     date |-> <<2024, 2, 2>>],
       [id |-> "e4", type |-> "wedding",  status |-> "upcoming", date |-> <<2027, 3, 1>>],
       [id |-> "e5", type |-> "wedding",  status |-> "past",     date |-> <<2024, 2, 2>>] >>

EventsB ==
    << [id |-> "e1", type |-> "holiday",  status |-> "upcoming", date |-> <<2026, 12, 25>>],
       [id |-> "e2", type |-> "memorial", status |-> "upcoming", date |-> <<2027, 1, 31>>],
       [id |-> "e3", type |-> "holiday",  status |-> "upcoming", date |-> <<2026, 12, 31>>] >>

EventsC ==
    << [id |-> "e1", type |-> "other", status |-> "past", date |-> <<2020, 8, 15>>] >>

EventLists == {EventsA, EventsB, EventsC, <<>>}

\* new Date(date).getTime(), in days: the time of a later date is larger
getTime(date) == (date[1] * 12 + (date[2] - 1)) * 31 + (date[3] - 1)

\* the comparison that orders by date alone
compare_DateOnly(a, b) == getTime(b.date) - getTime(a.date)

\* the function handed to sort: upcoming first, then the later date first
compare(a, b) ==
    IF a.status = "upcoming" /\ b.status = "past" THEN -1
    ELSE IF a.status = "past" /\ b.status = "upcoming" THEN 1
    ELSE getTime(b.date) - getTime(a.date)

\* x put into the sorted arr after the last element that is not to follow it
RECURSIVE insertSorted(_, _)
insertSorted(arr, x) ==
    IF arr = <<>> THEN <<x>>
    ELSE IF compare(arr[Len(arr)], x) <= 0
         THEN Append(arr, x)
         ELSE Append(insertSorted(SubSeq(arr, 1, Len(arr) - 1), x), arr[Len(arr)])

\* Array.prototype.sort with compare: a stable sort
RECURSIVE sort(_)
sort(arr) ==
    IF arr = <<>> THEN <<>>
    ELSE insertSorted(sort(SubSeq(arr, 1, Len(arr) - 1)), arr[Len(arr)])

\* the predicate handed to filter
passesFilters(event) ==
    IF statusFilter # "all" /\ event.status # statusFilter THEN FALSE
    ELSE IF typeFilter # "all" /\ event.type # typeFilter THEN FALSE
    ELSE TRUE

filteredEvents == sort(SelectSeq(events, passesFilters))

upcomingCount == Len(SelectSeq(events, LAMBDA e : e.status = "upcoming"))

pastCount == Len(SelectSeq(events, LAMBDA e : e.status = "past"))

\* the third counter of the header, events.length
totalCount == Len(events)

EventsInit ==
    /\ treePageUnmounted
    /\ galleryUnmounted
    /\ events \in EventLists
    /\ statusFilter = "all"
    /\ typeFilter = "all"
    /\ selectedEvent = null

\* the three status chips
setStatusFilter ==
    /\ \E filter \in {"all", "upcoming", "past"} : statusFilter' = filter
    /\ UNCHANGED <<treePage, gallery, events, typeFilter, selectedEvent>>

\* the options of the type select
setTypeFilter ==
    /\ \E value \in {"all"} \cup EventTypes : typeFilter' = value
    /\ UNCHANGED <<treePage, gallery, events, statusFilter, selectedEvent>>

\* a click on a card of the list
OpenEvent ==
    /\ \E i \in 1..Len(filteredEvents) : selectedEvent' = filteredEvents[i]
    /\ UNCHANGED <<treePage, gallery, events, statusFilter, typeFilter>>

\* the modal's backdrop and its close buttons
CloseEvent ==
    /\ selectedEvent # null
    /\ selectedEvent' = null
    /\ UNCHANGED <<treePage, gallery, events, statusFilter, typeFilter>>

\* the page's keydown listener, attached while an event is selected
EventKeyEscape ==
    /\ selectedEvent # null
    /\ selectedEvent' = null
    /\ UNCHANGED <<treePage, gallery, events, statusFilter, typeFilter>>

\* the drags told apart by handleDragEnd: far or fast downwards, or neither
DragOffsets == {0, 150}

DragVelocities == {0, 600}

\* the bottom sheet dragged and let go
handleDragEnd ==
    /\ selectedEvent # null
    /\ \E offsetY \in DragOffsets, velocityY \in DragVelocities :
           selectedEvent' = IF offsetY > 100 \/ velocityY > 500
                            THEN null
                            ELSE selectedEvent
    /\ UNCHANGED <<treePage, gallery, events, statusFilter, typeFilter>>

NextEvents ==
    \/ setStatusFilter
    \/ setTypeFilter
    \/ OpenEvent
    \/ CloseEvent
    \/ EventKeyEscape
    \/ handleDragEnd

EventsSpec == EventsInit /\ [][NextEvents]_vars

(***************************************************************************)
(* Properties                                                              *)
(***************************************************************************)
\* the Persons strictly below d
properDescendants(d) == descendantsAt(d.person, d.level) \ {d}

\* the ids of the cards of descendants on screen
RenderedIds == {r.person.id : r \in Rendered}

\* every id the tree holds: the root couple's and the descendants'
TreeIds == {data.husband.id, data.wife.id} \cup {d.person.id : d \in Descendants}

\* C1: for every node and every filter state, the node's subtree is visible iff
\* the node matches the Node Matcher or some descendant, at any depth, matches
\* the full four-clause Node Matcher at that descendant's own generation level.
C1_SubtreeVisibleIffSelfOrDescendantMatches ==
    \A d \in Descendants :
        shouldShowNode(d.person, d.level) <=>
            \/ isVisible(d.person, d.level)
            \/ \E e \in properDescendants(d) : isVisible(e.person, e.level)

\* C2: whenever the modal is open on a person whose id is nowhere in the tree
\* (a spouse's own id or the synthetic "<personId>-spouse" id), the lineage
\* that selection stored in highlightedIds is the empty sequence.
C2_MissingTargetLineageEmpty ==
    (isModalOpen /\ selectedPerson # null /\ selectedPerson.person.id \notin TreeIds)
        => highlightedIds = <<>>

\* C3: ancestor preservation. For every filter state and every person P with a
\* descendant D, at any depth, that matches the Node Matcher, P's subtree is
\* visible, also when P itself does not match: P passes its own shouldShowNode
\* test and the filter of the children sequence it belongs to.
C3_AncestorPreservation ==
    \A d \in Descendants :
        (\E e \in properDescendants(d) : isVisible(e.person, e.level))
            => /\ shouldShowNode(d.person, d.level)
               \* and the parent's filter keeps P among the children it maps
               /\ d.level = 1 =>
                      \E i \in 1..Len(rootVisibleChildren) :
                          rootVisibleChildren[i] = d.person
               /\ \A q \in Descendants :
                      (\E j \in 1..Len(childrenOf(q.person)) :
                           q.person.children[j] = d.person)
                          => \E i \in 1..Len(visibleChildren(q.person)) :
                                 visibleChildren(q.person)[i] = d.person

\* C3's case: P does not match, none of P's children passes the child test,
\* and a match lies at least two levels below P
C3_Witness ==
    \E d \in Descendants :
        /\ ~isVisible(d.person, d.level)
        /\ \A i \in 1..Len(childrenOf(d.person)) : ~childMatches(d.person.children[i])
        /\ \E e \in properDescendants(d) :
               e.level >= d.level + 2 /\ isVisible(e.person, e.level)

\* C4: for every node on screen that shows its children, the children sequence
\* rendered under it is exactly the children whose own subtree is visible by
\* the node's own rule, in the order of the source children sequence.
C4_RenderedChildrenAreTheVisibleOnes ==
    \A r \in Rendered :
        showsChildren(r.person) =>
            r.slots = SelectSeq(r.person.children,
                                LAMBDA c : shouldShowNode(c, r.generationLevel + 1))

C7_LeafVisibleIffMatches ==
    \A d \in Descendants :
        ~hasChildren(d.person) =>
            (shouldShowNode(d.person, d.level) <=> isVisible(d.person, d.level))

\* C7's case: with a filter active, a leaf whose children field is absent
\* matches and a leaf whose children sequence is empty does not
C7_Witness ==
    /\ searchQuery # <<>>
    /\ \E d \in Descendants :
           "children" \notin DOMAIN d.person /\ isVisible(d.person, d.level)
    /\ \E d \in Descendants :
           /\ "children" \in DOMAIN d.person
           /\ d.person.children = <<>>
           /\ ~shouldShowNode(d.person, d.level)

\* C8: a node self-matches iff the search, gender, generation and tag clauses
\* all hold; a node failing any single active filter is a non-match.
C8_SelfMatchIsConjunction ==
    \A d \in Descendants :
        LET p == d.person
            failsSearch ==
                /\ searchQuery # <<>>
                /\ ~includes(toLowerCase(p.name), toLowerCase(searchQuery))
                /\ "tags" \in DOMAIN p =>
                       \A i \in 1..Len(p.tags) :
                           ~includes(toLowerCase(p.tags[i]), toLowerCase(searchQuery))
            failsGender ==
                /\ genderFilter # "all"
                /\ "gender" \in DOMAIN p => p.gender # genderFilter
            failsGeneration ==
                generationFilter # GenAll /\ generationFilter # GenLevel(d.level)
            failsTags ==
                /\ tagFilter # <<>>
                /\ "tags" \in DOMAIN p =>
                       \A k \in 1..Len(tagFilter) : \A i \in 1..Len(p.tags) :
                           toLowerCase(tagFilter[k]) # toLowerCase(p.tags[i])
        IN  /\ isVisible(p, d.level) <=>
                   /\ matchesSearch(p)
                   /\ matchesGender(p)
                   /\ matchesGeneration(d.level)
                   /\ matchesTags(p)
            /\ isVisible(p, d.level) <=>
                   ~(failsSearch \/ failsGender \/ failsGeneration \/ failsTags)

\* C8's case: all four filters are active and some node satisfies the search,
\* gender and generation clauses but fails the tag clause alone
C8_Witness ==
    /\ searchQuery # <<>>
    /\ genderFilter # "all"
    /\ generationFilter # GenAll
    /\ tagFilter # <<>>
    /\ \E d \in Descendants :
           /\ matchesSearch(d.person)
           /\ matchesGender(d.person)
           /\ matchesGeneration(d.level)
           /\ ~matchesTags(d.person)

\* C9: a root-couple member counts as matching (its card is shown) only if it
\* satisfies every active filter at generation 0, the tag filter included.
C9_RootMemberMatchesAllFilters ==
    /\ showHusband => isVisible(data.husband, 0)
    /\ showWife => isVisible(data.wife, 0)

TreeNodes ==
    {[person |-> data.husband, level |-> 0], [person |-> data.wife, level |-> 0]}
        \cup Descendants

\* the Person carrying this id
personOf(id) == (CHOOSE d \in TreeNodes : d.person.id = id).person

\* c is one of p's children
isChildOf(c, p) == \E j \in 1..Len(childrenOf(p)) : childrenOf(p)[j] = c

\* a step that selects a person of the tree: the modal is opened on that
\* person and no timer is scheduled or run
SelectsTreeNode ==
    /\ isModalOpen'
    /\ pendingTimers' = pendingTimers
    /\ selectedPerson' # null
    /\ \/ selectedPerson' # selectedPerson
       \/ highlightedIds' # highlightedIds
       \/ ~isModalOpen
    /\ selectedPerson'.person.id \in TreeIds

\* C11: lineage correctness. Whenever a person N of the tree is selected (a
\* root-couple member or a descendant at any depth), the lineage stored is
\* non-empty, its last element is N.id, and every element after the
\* root-couple ids is a direct child of the element before it, the first such
\* element being a top-level child of the root couple.
C11_LineageEndsAtTargetAlongChildLinks ==
    [][SelectsTreeNode =>
          LET L == highlightedIds'
              N == selectedPerson'.person
              rootIds == {data.husband.id, data.wife.id}
          IN  /\ L = lineagePath(N)
              /\ Len(L) > 0
              /\ L[Len(L)] = N.id
              /\ \A i \in 1..Len(L) :
                     L[i] \notin rootIds =>
                         /\ i > 1
                         /\ L[i] \in TreeIds
                         /\ IF L[i - 1] \in rootIds
                            THEN isChildOf(personOf(L[i]), data)
                            ELSE isChildOf(personOf(L[i]), personOf(L[i - 1]))]_vars

\* C11's case: the modal is open on a grandchild or deeper descendant, the
\* second child of its parent, and the stored lineage ends at that person
C11_Witness ==
    /\ isModalOpen
    /\ selectedPerson # null
    /\ selectedPerson.generation >= 2
    /\ selectedPerson.person.id \in TreeIds
    /\ Len(highlightedIds) >= 4
    /\ highlightedIds[Len(highlightedIds)] = selectedPerson.person.id
    /\ \E d \in Descendants :
           /\ Len(childrenOf(d.person)) >= 2
           /\ d.person.children[2] = selectedPerson.person

\* the ids from a top-level child down to the descendant p nested at this
\* level, read off the parent links
RECURSIVE idsDownTo(_, _)
idsDownTo(p, level) ==
    IF level <= 1 THEN <<p.id>>
    ELSE LET parent == CHOOSE d \in Descendants : isChildOf(p, d.person)
         IN  Append(idsDownTo(parent.person, level - 1), p.id)

\* the lineage the claim describes for a person of the tree
lineageShape(n) ==
    IF n.person.id = data.husband.id THEN <<data.husband.id>>
    ELSE IF n.person.id = data.wife.id THEN <<data.wife.id>>
    ELSE <<data.husband.id, data.wife.id>> \o idsDownTo(n.person, n.level)

\* C12: the lineage of the husband's or the wife's id is the one-element
\* sequence holding that id; the lineage of any other person of the tree is
\* [husband.id, wife.id] followed by the ids on the single path from a
\* top-level child down to that person, and nothing else. A lineage on display
\* for a selected person of the tree has that shape.
C12_LineageShape ==
    /\ \A n \in TreeNodes :
           /\ lineagePath(n.person) = lineageShape(n)
           /\ Len(lineagePath(n.person)) = IF n.level = 0 THEN 1 ELSE 2 + n.level
    /\ data = TreeA => lineagePath(Eve) = <<"h", "w", "dan", "eve">>
    /\ (selectedPerson # null /\ highlightedIds # <<>>
           /\ selectedPerson.person.id \in TreeIds)
          => \E n \in TreeNodes :
                 /\ n.person.id = selectedPerson.person.id
                 /\ n.level = selectedPerson.generation
                 /\ highlightedIds = lineageShape(n)

\* C12's case: grandchild Eve of child Dan has been selected, her sibling Fay
\* and her uncle Cal being in the tree
C12_Witness ==
    /\ isModalOpen
    /\ selectedPerson # null
    /\ selectedPerson.person = Eve
    /\ highlightedIds = <<data.husband.id, data.wife.id, Dan.id, Eve.id>>
    /\ \E d \in Descendants : d.person = Fay
    /\ \E d \in Descendants : d.person = Cal

\* C13: the lineage search stops the moment the target id is found. For a
\* selected descendant, the target is the last person the search looked at: no
\* later top-level child is searched once the target has been found, and the
\* lineage on display holds the target once.
C13_SearchStopsAtFirstHit ==
    (selectedPerson # null /\ selectedPerson.person.id \in TreeIds
        /\ selectedPerson.person.id \notin {data.husband.id, data.wife.id})
      => LET target == selectedPerson.person.id
             visits == lineageVisits(selectedPerson.person)
             path   == lineagePath(selectedPerson.person)
         IN  /\ Cardinality({i \in 1..Len(path) : path[i] = target}) = 1
             /\ visits[Len(visits)] = target

\* no filter is active
filtersEmpty ==
    /\ searchQuery = <<>>
    /\ genderFilter = "all"
    /\ generationFilter = GenAll
    /\ tagFilter = <<>>

\* C14: empty-filter identity. With searchQuery empty, gender 'all',
\* generationFilter 'all' and tagFilter empty, every person of the tree (root
\* couple and all descendants) matches and every subtree is visible: both root
\* cards are shown, no child is filtered out of any children sequence, and
\* every expanded branch is on screen at full opacity.
C14_EmptyFilterIdentity ==
    filtersEmpty =>
        /\ \A n \in TreeNodes : isVisible(n.person, n.level)
        /\ showHusband /\ showWife
        /\ rootVisibleChildren = childrenOf(data)
        /\ \A d \in Descendants :
               /\ shouldShowNode(d.person, d.level)
               /\ visibleChildren(d.person) = childrenOf(d.person)
        /\ \A r \in Rendered : r.opacity = 10 /\ r.slots \in {<<>>, childrenOf(r.person)}
        /\ expandedNodes = allNodeIds => RenderedIds = {d.person.id : d \in Descendants}

\* C14's case: no filter is active, everything is expanded, and the tree has
\* grandchildren, a person without gender, one without tags and a leaf with an
\* empty children sequence
C14_Witness ==
    /\ filtersEmpty
    /\ expandedNodes = allNodeIds
    /\ Cardinality(Rendered) >= 4
    /\ \E r \in Rendered : r.generationLevel >= 2 /\ "gender" \notin DOMAIN r.person
    /\ \E r \in Rendered : "tags" \notin DOMAIN r.person
    /\ \E r \in Rendered : "children" \in DOMAIN r.person /\ r.person.children = <<>>

\* C15: generation level is derived from nesting depth. The root couple is
\* evaluated at generation 0, every top-level child is rendered with
\* generation 1 and every node on screen hands its own level plus 1 to its
\* children, so a card's generationLevel is its person's depth in the tree;
\* the generation clause holds for a node iff generationFilter is 'all' or is
\* exactly that level.
C15_GenerationIsNestingDepth ==
    /\ \A r \in Rendered :
           /\ \E d \in Descendants : d.person = r.person /\ d.level = r.generationLevel
           /\ \A i \in 1..Len(r.slots) : \A c \in Rendered :
                  c.person = r.slots[i] => c.generationLevel = r.generationLevel + 1
           /\ isChildOf(r.person, data) => r.generationLevel = 1
    /\ \A n \in TreeNodes :
           matchesGeneration(n.level) <=>
               \/ generationFilter.kind = "all"
               \/ generationFilter.kind = "level" /\ generationFilter.n = n.level
    /\ (showHusband \/ showWife) =>
           (generationFilter.kind = "all" \/ generationFilter.n = 0)
    /\ \A r \in Rendered :
           r.opacity = 10 =>
               (generationFilter.kind = "all" \/ generationFilter.n = r.generationLevel)

\* C15's case: generation 2 is selected and a grandchild, rendered through its
\* parent at generation 1, is on screen at full opacity under a dimmed parent
C15_Witness ==
    /\ generationFilter = GenLevel(2)
    /\ ~showHusband
    /\ \E r \in Rendered : \E c \in Rendered :
           /\ r.generationLevel = 1
           /\ r.opacity = 6
           /\ isChildOf(c.person, r.person)
           /\ c.generationLevel = 2
           /\ c.opacity = 10

\* two letters are the same ignoring case
sameLetter(a, b) ==
    \/ a = b
    \/ a \in DOMAIN UpperToLower /\ UpperToLower[a] = b
    \/ b \in DOMAIN UpperToLower /\ UpperToLower[b] = a

\* two strings are equal ignoring letter case
equalIgnoringCase(s, t) ==
    /\ Len(s) = Len(t)
    /\ \A j \in 1..Len(s) : sameLetter(s[j], t[j])

\* a person's own tags, none when the field is absent
ownTags(p) == IF "tags" \in DOMAIN p THEN {p.tags[i] : i \in 1..Len(p.tags)} ELSE {}

\* C16: the tag clause holds for a person iff tagFilter is empty or at least
\* one selected tag equals, ignoring letter case, one of the person's own tags
\* (one selected tag is enough, and the whole tag must be equal); a person
\* with no tags field fails every non-empty tagFilter.
C16_TagClauseIsAnyOfWholeTag ==
    \A n \in TreeNodes :
        /\ matchesTags(n.person) <=>
               \/ tagFilter = <<>>
               \/ \E k \in 1..Len(tagFilter) : \E t \in ownTags(n.person) :
                      equalIgnoringCase(tagFilter[k], t)
        /\ ("tags" \notin DOMAIN n.person /\ tagFilter # <<>>) => ~matchesTags(n.person)
        /\ n.level > 0 => (childMatches(n.person) /\ matchesGeneration(n.level)
                              <=> isVisible(n.person, n.level))

\* C16's case: two tags are selected, one person carries exactly one of them
\* and passes, another has no tags field and fails
C16_Witness ==
    /\ Len(tagFilter) = 2
    /\ \E n \in TreeNodes :
           /\ Cardinality(ownTags(n.person)) = 1
           /\ \E k \in 1..2 : tagFilter[k] \notin ownTags(n.person)
           /\ \E k \in 1..2 : tagFilter[k] \in ownTags(n.person)
           /\ matchesTags(n.person)
    /\ \E n \in TreeNodes : "tags" \notin DOMAIN n.person /\ ~matchesTags(n.person)

\* the person declares no gender, or the gender 'other'
noBinaryGender(p) == "gender" \notin DOMAIN p \/ p.gender = "other"

\* C17: the gender clause holds for a person iff the gender filter is 'all'
\* or the person's declared gender equals the filter value exactly; a person
\* with no declared gender, or with gender 'other', fails both the 'male' and
\* the 'female' filter, among the descendants and in the root couple alike.
C17_GenderClauseExact ==
    /\ \A n \in TreeNodes :
           LET p == n.person
               clause == \/ genderFilter = "all"
                         \/ "gender" \in DOMAIN p /\ p.gender = genderFilter
           IN  /\ matchesGender(p) <=> clause
               /\ rootMatchesGender(p) <=> clause
               /\ (noBinaryGender(p) /\ genderFilter \in {"male", "female"})
                      => /\ ~matchesGender(p)
                         /\ ~rootMatchesGender(p)
                         /\ ~isVisible(p, n.level)
                         /\ n.level > 0 => ~childMatches(p)
    /\ (noBinaryGender(data.husband) /\ genderFilter # "all") => ~showHusband
    /\ (noBinaryGender(data.wife) /\ genderFilter # "all") => ~showWife
    /\ \A r \in Rendered :
           (noBinaryGender(r.person) /\ genderFilter # "all") => r.opacity = 6

\* C17's case: the 'male' filter is on, the husband passes it, the wife, who
\* declares no gender, does not, and a descendant without a declared gender
\* is on screen dimmed, kept for a male descendant
C17_Witness ==
    /\ genderFilter = "male"
    /\ showHusband
    /\ "gender" \notin DOMAIN data.wife
    /\ ~showWife
    /\ \E r \in Rendered :
           /\ "gender" \notin DOMAIN r.person
           /\ r.opacity = 6
           /\ hasMatchingDescendant(r.person)

\* q occurs in s as a substring, letter case ignored
containsIgnoringCase(s, q) ==
    \E off \in 0..(Len(s) - Len(q)) :
        \A j \in 1..Len(q) : sameLetter(s[off + j], q[j])

\* C18: the search clause holds for a person iff searchQuery is empty, or the
\* person's name contains searchQuery as a substring ignoring letter case, or
\* at least one of the person's tags contains searchQuery as a substring
\* ignoring letter case.
C18_SearchClauseNameOrTagSubstring ==
    \A n \in TreeNodes :
        LET p == n.person
            clause == \/ searchQuery = <<>>
                      \/ containsIgnoringCase(p.name, searchQuery)
                      \/ \E t \in ownTags(p) : containsIgnoringCase(t, searchQuery)
        IN  /\ matchesSearch(p) <=> clause
            /\ rootMatchesSearch(p) <=> clause
            /\ ~clause => ~isVisible(p, n.level)

\* C18's case: a search text is typed that is part of no name; one descendant
\* passes the clause through a tag alone, another passes through nothing
C18_Witness ==
    /\ searchQuery # <<>>
    /\ \E d \in Descendants :
           /\ ~containsIgnoringCase(d.person.name, searchQuery)
           /\ matchesSearch(d.person)
    /\ \E d \in Descendants : ~matchesSearch(d.person)

\* the person with every spouse field below and at it taken away
RECURSIVE noSpouses(_)
noSpouses(p) ==
    [f \in DOMAIN p \ {"spouse"} |->
        IF f = "children"
        THEN [i \in 1..Len(p.children) |-> noSpouses(p.children[i])]
        ELSE p[f]]

\* the ids a spouse card is selected under
SpouseIds ==
    {spouseAsPerson(d.person).id : d \in {e \in Descendants : "spouse" \in DOMAIN e.person}}

\* C19: a spouse is not a node of the traversal tree. Whether a married
\* person's subtree is kept (the person matching or having a matching
\* descendant) is the same with every spouse taken out of the data; no node
\* card on screen is a spouse's; neither the lineage on display nor the
\* lineage computed for a spouse holds a spouse's id. Yet every tag of a
\* descendant's spouse is in the tag vocabulary the filter panel offers.
C19_SpouseOutsideTraversalButInVocabulary ==
    LET spouseIds == SpouseIds
        desc      == Descendants
        married   == {d \in desc : "spouse" \in DOMAIN d.person}
        lineages  == {lineagePath(spouseAsPerson(d.person)) : d \in married}
                         \cup {highlightedIds}
    IN  /\ \A d \in married :
               /\ shouldShowNode(d.person, d.level)
                      <=> shouldShowNode(noSpouses(d.person), d.level)
               /\ rootChildMatches(d.person) \/ rootHasMatchingDescendant(d.person)
                      <=> \/ rootChildMatches(noSpouses(d.person))
                          \/ rootHasMatchingDescendant(noSpouses(d.person))
               /\ ownTags(d.person.spouse) \subseteq allTags
        /\ RenderedIds \cap spouseIds = {}
        /\ \A L \in lineages : \A i \in 1..Len(L) : L[i] \notin spouseIds

\* C19's case: a spouse card has been selected and a lineage is on display;
\* the text then typed is part of that spouse's name and of nothing in the
\* tree, so nothing of the tree is kept; the spouse carries a tag that nobody
\* of the tree carries in that spelling
C19_Witness ==
    /\ selectedPerson # null
    /\ selectedPerson.person.id \in SpouseIds
    /\ highlightedIds # <<>>
    /\ searchQuery # <<>>
    /\ containsIgnoringCase(selectedPerson.person.name, searchQuery)
    /\ rootVisibleChildren = <<>>
    /\ ~showHusband /\ ~showWife
    /\ \E t \in ownTags(selectedPerson.person) :
           \A n \in TreeNodes : t \notin ownTags(n.person)

\* C20: no operation mutates the tree. Over any sequence of filter changes,
\* expand/collapse toggles, expand-all, collapse-all, person or spouse
\* selections, modal closes and timer callbacks, every step leaves the family
\* tree data (every person's id, name, tags, spouse and children sequence) as
\* it was, hence identical to the snapshot loaded at startup.
C20_TreeNeverMutated == [][data' = data /\ data' \in Trees]_vars

\* C20's case: after filters were set, everything was expanded and a spouse
\* without an id of her own was selected through a copy carrying a synthetic
\* id, and the modal was closed and its timer ran, the spouse in the tree
\* still has no id
C20_Witness ==
    /\ selectedPerson # null
    /\ ~isModalOpen
    /\ pendingTimers = 0
    /\ highlightedIds = <<>>
    /\ tagFilter # <<>>
    /\ searchQuery # <<>>
    /\ Cardinality(expandedNodes) > 1
    /\ expandedNodes = allNodeIds
    /\ \E d \in Descendants :
           /\ "spouse" \in DOMAIN d.person
           /\ "id" \notin DOMAIN d.person.spouse
           /\ selectedPerson.person = spouseAsPerson(d.person)
           /\ "id" \in DOMAIN selectedPerson.person
    /\ data \in Trees

\* the arguments of the Node Matcher other than the person and its level
filters == <<searchQuery, genderFilter, generationFilter, tagFilter>>

C22_OpenModalShowsSelectedLineage ==
    isModalOpen =>
        /\ selectedPerson # null
        /\ highlightedIds = lineagePath(selectedPerson.person)

\* C23: the 'No matches found' empty state is displayed if and only if no
\* person card is rendered at all, that is, neither root-couple member is shown
\* and the root's visible children sequence is empty.
C23_EmptyStateIffNothingShown ==
    showEmptyState <=>
        (~showHusband /\ ~showWife /\ rootVisibleChildren = <<>>)

\* how many of these children, instantiated at this level, put a card on screen
renderedAmong(children, generationLevel) ==
    Cardinality({i \in 1..Len(children) :
                     RecursiveTreeNode(children[i], generationLevel) # {}})

\* C24: for every node on screen that has children and is collapsed, the
\* number on its children-count badge is the number of child nodes that are
\* rendered once the node is expanded, for every filter state; the same holds
\* for the root's badge.
C24_BadgeCountsRenderedChildren ==
    /\ \A r \in Rendered :
           (hasChildren(r.person) /\ r.person.id \notin expandedNodes) =>
               badgeCount(r.person)
                   = renderedAmong(childrenOf(r.person), r.generationLevel + 1)
    /\ (hasChildren(data) /\ ~isRootExpanded) =>
           rootBadgeCount = renderedAmong(childrenOf(data), 1)

\* the descendants d lies strictly below
ancestorsOf(d) == {a \in Descendants : d \in properDescendants(a)}

\* C25: a descendant whose subtree is visible is rendered if and only if
\* 'root' and the id of every one of its proper ancestors below the root
\* couple are in expandedNodes; every ancestor of a visible node is itself
\* visible; and a filter change never adds to or removes from expandedNodes.
C25_RenderedIffVisibleAndAncestorsExpanded ==
    /\ [](\A d \in Descendants :
             /\ d.person.id \in RenderedIds <=>
                    /\ shouldShowNode(d.person, d.level)
                    /\ "root" \in expandedNodes
                    /\ \A a \in ancestorsOf(d) : a.person.id \in expandedNodes
             /\ shouldShowNode(d.person, d.level) =>
                    \A a \in ancestorsOf(d) : shouldShowNode(a.person, a.level))
    /\ [][filters' # filters => expandedNodes' = expandedNodes]_vars

\* C25's case: a search text is typed, a descendant matches it, its parent is
\* on screen collapsed, and the match has no card
C25_Witness ==
    /\ searchQuery # <<>>
    /\ \E d \in Descendants : \E a \in ancestorsOf(d) :
           /\ isVisible(d.person, d.level)
           /\ a.person.id \in RenderedIds
           /\ a.person.id \notin expandedNodes
           /\ d.person.id \notin RenderedIds

\* C26: after the profile modal is closed, unless a person is selected
\* again, highlightedIds eventually becomes the empty sequence (the scheduled
\* callback being run in the end); once empty it stays empty until a step that
\* opens the modal on a selection; and the step that closes the modal leaves
\* selectedPerson and expandedNodes as they were.
C26_HighlightClearedAfterClose ==
    /\ (~isModalOpen) ~> (highlightedIds = <<>> \/ isModalOpen)
    /\ [][(highlightedIds = <<>> /\ highlightedIds' # <<>>)
             => (isModalOpen' /\ selectedPerson' # null
                   /\ highlightedIds' = lineagePath(selectedPerson'.person))]_vars
    /\ [][(isModalOpen /\ ~isModalOpen')
             => (selectedPerson' = selectedPerson /\ expandedNodes' = expandedNodes
                   /\ highlightedIds' = highlightedIds)]_vars

\* C26's case: a descendant was selected with its branch expanded, the modal
\* was closed and the callback has run: the highlight is empty, the selection
\* and the expansion are still there
C26_Witness ==
    /\ ~isModalOpen
    /\ pendingTimers = 0
    /\ highlightedIds = <<>>
    /\ selectedPerson # null
    /\ selectedPerson.generation >= 2
    /\ selectedPerson.person.id \in TreeIds
    /\ Cardinality(expandedNodes) >= 2

\* C27: toggling the expansion of an id flips the membership of exactly that
\* id in expandedNodes and leaves the membership of every other id unchanged,
\* so that a second toggle of the same id restores the set and the expansion
\* state of descendants survives collapsing and re-expanding an ancestor.
C27_ToggleFlipsExactlyOneId ==
    [][\A id \in allNodeIds :
           handleToggleExpand(id) =>
               /\ (id \in expandedNodes') # (id \in expandedNodes)
               /\ \A other \in (allNodeIds \cup expandedNodes \cup expandedNodes') \ {id} :
                      (other \in expandedNodes') = (other \in expandedNodes)
               /\ (expandedNodes' \ expandedNodes) \cup (expandedNodes \ expandedNodes')
                      = {id}
               \* the same toggle applied to the new set gives the old set back
               /\ expandedNodes = IF id \in expandedNodes'
                                  THEN expandedNodes' \ {id}
                                  ELSE expandedNodes' \cup {id}]_vars

\* C27's case: an ancestor has been collapsed while a descendant of it with
\* children of its own is still recorded as expanded
C27_Witness ==
    \E d \in Descendants : \E a \in ancestorsOf(d) :
        /\ hasChildren(d.person)
        /\ d.person.id \in expandedNodes
        /\ a.person.id \notin expandedNodes
        /\ a.person.id \in RenderedIds

\* 'root' and the id of every descendant of the root couple
fullExpansion == {"root"} \cup {d.person.id : d \in Descendants}

\* C28: expandedNodes is initially exactly {'root'}; Collapse All sets it to
\* exactly {'root'} and Expand All to exactly 'root' plus the id of every
\* descendant of the root couple, whatever it was before; in every reachable
\* state it is a subset of that full set and holds no root-couple id and no
\* spouse id.
C28_ExpandedNodesWithinFullSet ==
    /\ expandedNodes = {"root"}
    /\ [](/\ expandedNodes \subseteq fullExpansion
          /\ expandedNodes \cap {data.husband.id, data.wife.id} = {}
          /\ expandedNodes \cap SpouseIds = {})
    /\ [][/\ handleExpandAll => expandedNodes' = fullExpansion
          /\ handleCollapseAll => expandedNodes' = {"root"}]_vars

\* C28's case: everything is expanded, the root included, in a tree with a
\* grandchild and a spouse who has an id of her own
C28_Witness ==
    /\ expandedNodes = fullExpansion
    /\ Cardinality(expandedNodes) >= 4
    /\ \E d \in Descendants :
           "spouse" \in DOMAIN d.person /\ "id" \in DOMAIN d.person.spouse

\* the position, counted from 1, of the lightbox's image among the images
positionOf(image) == CHOOSE i \in 1..Len(imageIds) : imageIds[i] = image

\* a step to the next image: the right arrow key, the right arrow button or a
\* drag far or fast to the left
stepsNext ==
    \/ KeyArrowRight
    \/ ClickNext
    \/ /\ selectedImage # noImage
       /\ Len(imageIds) > 1
       /\ \E offsetX \in SwipeOffsets, velocityX \in SwipeVelocities :
              /\ offsetX < -100 \/ velocityX < -500
              /\ handleSwipe(offsetX, velocityX)

\* a step to the previous image: the left arrow key, the left arrow button or
\* a drag far or fast to the right and neither far nor fast to the left
stepsPrevious ==
    \/ KeyArrowLeft
    \/ ClickPrevious
    \/ /\ selectedImage # noImage
       /\ Len(imageIds) > 1
       /\ \E offsetX \in SwipeOffsets, velocityX \in SwipeVelocities :
              /\ ~(offsetX < -100 \/ velocityX < -500)
              /\ offsetX > 100 \/ velocityX > 500
              /\ handleSwipe(offsetX, velocityX)

\* With several images the lightbox's image is always one of imageIds; a step
\* to the next image moves one position on and from the last to the first, a
\* step to the previous one moves one position back and from the first to the
\* last, and previous undoes next.
C29_NavigationStaysInGallery ==
    /\ [](selectedImage # noImage /\ Len(imageIds) > 1 =>
            /\ \E i \in 1..Len(imageIds) : imageIds[i] = selectedImage
            /\ at(imageIds, prevIndex(indexOf(imageIds,
                   at(imageIds, nextIndex(indexOf(imageIds, selectedImage))))))
               = selectedImage)
    /\ [][stepsNext /\ Len(imageIds) > 1 =>
            /\ \E i \in 1..Len(imageIds) : imageIds[i] = selectedImage'
            /\ positionOf(selectedImage') =
                   IF positionOf(selectedImage) = Len(imageIds)
                   THEN 1 ELSE positionOf(selectedImage) + 1]_vars
    /\ [][stepsPrevious /\ Len(imageIds) > 1 =>
            /\ \E i \in 1..Len(imageIds) : imageIds[i] = selectedImage'
            /\ positionOf(selectedImage') =
                   IF positionOf(selectedImage) = 1
                   THEN Len(imageIds) ELSE positionOf(selectedImage) - 1]_vars

\* Escape pressed while the lightbox is open closes it, however many images
\* the gallery has.
C29_EscapeClosesLightbox ==
    [](selectedImage # noImage =>
          ENABLED (KeyEscape /\ selectedImage' = noImage))

\* C29: in the lightbox of a gallery with more than one image, after any
\* sequence of next and previous steps (arrow keys, arrow buttons, swipes) the
\* selected image is still a member of imageIds, next from the last image
\* goes to the first and previous from the first to the last, next followed
\* by previous returns to the same image; and pressing Escape while the
\* lightbox is open closes it for any number of images.
C29_LightboxNavigationAndEscape ==
    /\ C29_NavigationStaysInGallery
    /\ C29_EscapeClosesLightbox

\* the lightbox showing the only image of a gallery: Escape is pressed there
C29_Witness ==
    /\ selectedImage # noImage
    /\ Len(imageIds) = 1

\* date d is the same day as date e or a later one
sameOrLater(d, e) ==
    \/ d[1] > e[1]
    \/ d[1] = e[1] /\ d[2] > e[2]
    \/ d[1] = e[1] /\ d[2] = e[2] /\ d[3] >= e[3]

\* the events that the two filters let through
wanted ==
    {events[i] : i \in {j \in 1..Len(events) :
        /\ statusFilter = "all" \/ events[j].status = statusFilter
        /\ typeFilter = "all" \/ events[j].type = typeFilter}}

\* C30: on the events page, under every status filter and type filter, the
\* displayed list holds exactly the events whose status is the status filter
\* (or the filter is 'all') and whose type is the type filter (or the filter
\* is 'all'); in it every upcoming event precedes every past one and events
\* of equal status are in non-increasing date order; the upcoming, past and
\* total counters do not change with the filters, and upcoming + past = total.
C30_FilteredSortedAndCounted ==
    /\ [](LET shown == filteredEvents IN
            /\ {shown[i] : i \in 1..Len(shown)} = wanted
            /\ Len(shown) = Cardinality(wanted)
            /\ \A i, j \in 1..Len(shown) :
                   i < j =>
                       /\ ~(shown[i].status = "past" /\ shown[j].status = "upcoming")
                       /\ shown[i].status = shown[j].status
                              => sameOrLater(shown[i].date, shown[j].date)
            /\ upcomingCount + pastCount = totalCount)
    /\ [][/\ upcomingCount' = upcomingCount
          /\ pastCount' = pastCount
          /\ totalCount' = totalCount]_vars

\* a type filter is set, and the list shown under it has events of both
\* statuses in another order than the data has them
C30_Witness ==
    /\ typeFilter # "all"
    /\ \E i, j \in 1..Len(filteredEvents) :
           filteredEvents[i].status # filteredEvents[j].status
    /\ filteredEvents # SelectSeq(events, passesFilters)
    /\ Len(filteredEvents) < Len(events)

====
